---- MODULE Spec2Model ----
(***************************************************************************)
(* throw-res: responses thrown as exceptions and executed by one Express   *)
(* error middleware (src/src/index.ts).                                    *)
(*                                                                         *)
(* The state is the set of objects constructed so far (heap), the record   *)
(* of the constructor calls (ctorLog), the value propagating through the   *)
(* call stack of a request (pending), and what the middleware and the      *)
(* handlers did: the middleware's invocations (callLog), the handler       *)
(* invocations (handlerLog), the calls of next (nextLog) and the calls     *)
(* made on each response object (resLog).                                  *)
(***************************************************************************)
EXTENDS Integers, Sequences, FiniteSets, TLC

VARIABLES heap, ctorLog, pending, callLog, handlerLog, nextLog, resLog

vars == <<heap, ctorLog, pending, callLog, handlerLog, nextLog, resLog>>

(***************************************************************************)
(* Bounds of the model.                                                    *)
(***************************************************************************)
MaxObjects == 1
MaxCalls == 1
MaxRequests == 2
MaxSeqObjects == 2
MaxSeqCalls == 2
MaxDepth == 1

Requests == 1 .. MaxRequests

(***************************************************************************)
(* Values of the host language.                                            *)
(***************************************************************************)
\* An optional argument is <<>> when omitted (undefined) and <<v>> when given.
Undefined == <<>>
Given(v) == <<v>>

\* Number.prototype.toString for the naturals, as the template literal of
\* ThrowableJson's message applies it.
Digit(d) == CASE d = 0 -> "0" [] d = 1 -> "1" [] d = 2 -> "2" [] d = 3 -> "3"
              [] d = 4 -> "4" [] d = 5 -> "5" [] d = 6 -> "6" [] d = 7 -> "7"
              [] d = 8 -> "8" [] OTHER -> "9"

RECURSIVE NumToString(_)
NumToString(n) == IF n < 10 THEN Digit(n) ELSE NumToString(n \div 10) \o Digit(n % 10)

\* A location is a string or a URL object; toString gives the string itself,
\* and the href of a URL (its base joined with its path).
StringLoc(s) == [kind |-> "string", s |-> s, base |-> ""]
UrlLoc(path, base) == [kind |-> "URL", s |-> path, base |-> base]

LocToString(location) ==
    IF location.kind = "URL" THEN location.base \o location.s ELSE location.s

NoLoc == StringLoc("")

\* JSON values: a tag, a string, a number and the members of an array or object.
\* A member whose tag is "ref" refers back to the enclosing object (a cycle).
Leaf(k, t, s, n) == [k |-> k, t |-> t, s |-> s, n |-> n]
JsonNull == [t |-> "null", s |-> "", n |-> 0, items |-> <<>>]
JsonString(s) == [t |-> "string", s |-> s, n |-> 0, items |-> <<>>]
JsonArray(items) == [t |-> "array", s |-> "", n |-> 0, items |-> items]
JsonObject(items) == [t |-> "object", s |-> "", n |-> 0, items |-> items]

IsCyclic(json) == \E i \in 1 .. Len(json.items) : json.items[i].t = "ref"

(***************************************************************************)
(* The response object of the host (Express): each method records its call.*)
(* A write is [res, op, code, target, body].                               *)
(***************************************************************************)
Write(res, op, code, target, body) ==
    [res |-> res, op |-> op, code |-> code, target |-> target, body |-> body]

\* What running a piece of code did: the calls it made on response objects, its
\* calls of next, and the error it threw ("none" when it returned normally).
Effects(writes, nexts, threw) == [writes |-> writes, nexts |-> nexts, threw |-> threw]

NextCall(by, next, arg) == [by |-> by, next |-> next, arg |-> arg]

\* res.redirect(status, url)
res_redirect(res, status, url) ==
    Effects(<<Write(res, "redirect", status, url, JsonNull)>>, <<>>, "none")

\* res.status(code), which returns res for chaining
res_status(res, code) ==
    Effects(<<Write(res, "status", code, "", JsonNull)>>, <<>>, "none")

\* res.json(body): serializes body; a circular structure makes it throw
res_json(res, body) ==
    IF IsCyclic(body)
    THEN Effects(<<>>, <<>>, "TypeError: circular structure")
    ELSE Effects(<<Write(res, "json", 0, "", body)>>, <<>>, "none")

\* res.send(text)
res_send(res, text) ==
    Effects(<<Write(res, "send", 0, "", JsonString(text))>>, <<>>, "none")

\* a; b in sequence: b runs only if a returned normally
Then(a, b) ==
    IF a.threw # "none" THEN a
    ELSE Effects(a.writes \o b.writes, a.nexts \o b.nexts, b.threw)

(***************************************************************************)
(* Handlers: the closures stored in the handler field.                     *)
(***************************************************************************)
Handler(kind, status, location, json) ==
    [kind |-> kind, status |-> status, location |-> location, json |-> json]

NoHandler == Handler("none", 0, NoLoc, JsonNull)

\* (a redirect that leaves the status to the response's default)
RedirectHandler_NoStatus(h, req, res, next) ==
    res_redirect(res, 302, LocToString(h.location))

\* (_, res) => res.redirect(status, location.toString())
RedirectHandler(h, req, res, next) == res_redirect(res, h.status, LocToString(h.location))

\* (the body sent before the status is set)
JsonHandler_BodyFirst(h, req, res, next) ==
    Then(res_json(res, h.json), res_status(res, h.status))

\* (_, res) => res.status(status).json(json)
JsonHandler(h, req, res, next) == Then(res_status(res, h.status), res_json(res, h.json))

\* (req, res) => res.status(418).send("I'm a teapot")
TeapotHandler(h, req, res, next) == Then(res_status(res, 418), res_send(res, "I'm a teapot"))

\* a handler that fails before writing anything
FailingHandler(h, req, res, next) == Effects(<<>>, <<>>, "Error: handler failed")

\* a handler that passes control on: (req, res, next) => next()
NextHandler(h, req, res, next) == Effects(<<>>, <<NextCall("handler", next, <<>>)>>, "none")

\* handler(req, res, next)
RunHandler(h, req, res, next) ==
    CASE h.kind = "redirect" -> RedirectHandler(h, req, res, next)
      [] h.kind = "json" -> JsonHandler(h, req, res, next)
      [] h.kind = "teapot" -> TeapotHandler(h, req, res, next)
      [] h.kind = "fails" -> FailingHandler(h, req, res, next)
      [] h.kind = "next" -> NextHandler(h, req, res, next)
      [] OTHER -> Effects(<<>>, <<>>, "TypeError: err.handler is not a function")

CustomHandlers ==
    { Handler("teapot", 0, NoLoc, JsonNull),
      Handler("fails", 0, NoLoc, JsonNull),
      Handler("next", 0, NoLoc, JsonNull) }

(***************************************************************************)
(* Objects.  proto is the prototype chain of the object, nearest first;    *)
(* hasHandler says whether the object carries a handler field.             *)
(***************************************************************************)
Object(id, proto, message, hasHandler, handler) ==
    [id |-> id, proto |-> proto, message |-> message,
     hasHandler |-> hasHandler, handler |-> handler]

\* (a test by shape instead of by class: any value with a handler field)
InstanceOf_DuckTyped(v, cls) == v.hasHandler

\* v instanceof cls
InstanceOf(v, cls) == \E i \in 1 .. Len(v.proto) : v.proto[i] = cls

\* a ?? b
Nullish(a, b) == IF a = Undefined THEN b ELSE a[1]

\* a parameter declared with a default value: (p = d)
DefaultParam(a, d) == IF a = Undefined THEN d ELSE a[1]

\* What a constructor call gave: the object, or the error it threw.
Constructed(obj) == [threw |-> "none", obj |-> obj]

DefaultMessage == "Not an error: response thrown"

DefaultRedirectStatus == 302

DefaultJsonStatus == 200

RedirectCodes == {301, 302, 303, 307, 308}

ThrowableResponseProto == <<"ThrowableResponse", "Error", "Object">>
ThrowableRedirectProto == <<"ThrowableRedirect">> \o ThrowableResponseProto
ThrowableJsonProto == <<"ThrowableJson">> \o ThrowableResponseProto

\* (a constructor that takes the placeholder for every falsy message: a || b)
ThrowableResponse_Falsy(id, proto, handler, messageForErrorConstructor) ==
    Constructed(Object(id, proto,
                       IF messageForErrorConstructor \in {Undefined, Given("")}
                       THEN DefaultMessage ELSE messageForErrorConstructor[1],
                       TRUE, handler))

\* new ThrowableResponse(handler, messageForErrorConstructor?), also reached
\* through super(...) from the subclasses, whose prototype chain proto then is
ThrowableResponse(id, proto, handler, messageForErrorConstructor) ==
    Constructed(Object(id, proto, Nullish(messageForErrorConstructor, DefaultMessage),
                       TRUE, handler))

\* (a constructor whose default status is the permanent redirect)
ThrowableRedirect_Default301(id, location, statusArg) ==
    LET status == DefaultParam(statusArg, 301)
    IN ThrowableResponse(id, ThrowableRedirectProto,
                         Handler("redirect", status, location, JsonNull),
                         Given("Redirecting to " \o LocToString(location)))

\* new ThrowableRedirect(location, status = 302)
ThrowableRedirect(id, location, statusArg) ==
    LET status == DefaultParam(statusArg, DefaultRedirectStatus)
    IN ThrowableResponse(id, ThrowableRedirectProto,
                         Handler("redirect", status, location, JsonNull),
                         Given("Redirecting to " \o LocToString(location)))

\* new ThrowableJson(json, status = 200)
ThrowableJson(id, json, statusArg) ==
    LET status == DefaultParam(statusArg, DefaultJsonStatus)
    IN ThrowableResponse(id, ThrowableJsonProto,
                         Handler("json", status, NoLoc, json),
                         Given("JSON response: " \o NumToString(status)))

(***************************************************************************)
(* The error middleware.                                                   *)
(***************************************************************************)
HandlerCall(err, req, res, next) == [obj |-> err, req |-> req, res |-> res, next |-> next]

Outcome(handlerCalls, eff) == [handlerCalls |-> handlerCalls, eff |-> eff]

\* (a middleware that invokes the handler again when it failed)
throwableResponses_Retry(err, req, res, next) ==
    IF InstanceOf(err, "ThrowableResponse")
    THEN LET e == RunHandler(err.handler, req, res, next)
         IN IF e.threw = "none"
            THEN Outcome(<<HandlerCall(err, req, res, next)>>, e)
            ELSE Outcome(<<HandlerCall(err, req, res, next), HandlerCall(err, req, res, next)>>,
                         Effects(e.writes \o e.writes, e.nexts \o e.nexts, e.threw))
    ELSE Outcome(<<>>, Effects(<<>>, <<NextCall("middleware", next, Given(err))>>, "none"))

\* (a middleware that catches the failure of the handler and passes it on)
throwableResponses_Catching(err, req, res, next) ==
    IF InstanceOf(err, "ThrowableResponse")
    THEN LET e == RunHandler(err.handler, req, res, next)
         IN Outcome(<<HandlerCall(err, req, res, next)>>,
                    IF e.threw = "none" THEN e
                    ELSE Effects(e.writes,
                                 e.nexts \o <<NextCall("middleware", next, Given(err))>>,
                                 "none"))
    ELSE Outcome(<<>>, Effects(<<>>, <<NextCall("middleware", next, Given(err))>>, "none"))

\* (a middleware that passes the value on after handling it)
throwableResponses_AlsoNext(err, req, res, next) ==
    IF InstanceOf(err, "ThrowableResponse")
    THEN Outcome(<<HandlerCall(err, req, res, next)>>,
                 Then(RunHandler(err.handler, req, res, next),
                      Effects(<<>>, <<NextCall("middleware", next, Given(err))>>, "none")))
    ELSE Outcome(<<>>, Effects(<<>>, <<NextCall("middleware", next, Given(err))>>, "none"))

\* throwableResponses(err, req, res, next)
throwableResponses(err, req, res, next) ==
    IF InstanceOf(err, "ThrowableResponse")
    THEN Outcome(<<HandlerCall(err, req, res, next)>>, RunHandler(err.handler, req, res, next))
    ELSE Outcome(<<>>, Effects(<<>>, <<NextCall("middleware", next, Given(err))>>, "none"))

(***************************************************************************)
(* Inputs.                                                                 *)
(***************************************************************************)
Locations == { StringLoc("/login"), UrlLoc("/profile", "https://example.com") }

\* The status type of ThrowableRedirect is erased at run time: a JavaScript
\* caller, or a cast, can pass any number, such as 299.
RedirectStatusArgs == {Undefined} \cup { Given(s) : s \in RedirectCodes \cup {299} }

JsonValues ==
    { JsonObject(<<Leaf("error", "string", "Not found", 0)>>),
      JsonArray(<<Leaf("", "string", "item1", 0), Leaf("", "string", "item2", 0)>>),
      JsonString("item1"),
      JsonNull,
      JsonObject(<<Leaf("self", "ref", "", 0)>>) }

JsonStatusArgs == { Undefined, Given(404), Given(201) }

MessageArgs == { Undefined, Given(""), Given("Teapot response") }

\* Values that are thrown without being a ThrowableResponse: ordinary errors,
\* one of them with the message of a signal, and an object that has a handler
\* field and that message but not the class.
NonSignals ==
    { Object(0, <<"Error", "Object">>, "Internal error", FALSE, NoHandler),
      Object(0, <<"Error", "Object">>, DefaultMessage, FALSE, NoHandler),
      Object(0, <<"Object">>, DefaultMessage, TRUE, Handler("teapot", 0, NoLoc, JsonNull)) }

\* The inputs of the runs that follow several signals through one request.
SeqLocations == { StringLoc("/login") }
SeqRedirectStatusArgs == { Undefined }
SeqJsonValues == { JsonObject(<<Leaf("error", "string", "Not found", 0)>>) }
SeqJsonStatusArgs == { Given(404) }
SeqHandlers == { Handler("fails", 0, NoLoc, JsonNull) }
SeqMessageArgs == { Undefined }
SeqNonSignals == { Object(0, <<"Error", "Object">>, "Internal error", FALSE, NoHandler) }

(***************************************************************************)
(* State and operations.                                                   *)
(***************************************************************************)
Init ==
    /\ heap = <<>>
    /\ ctorLog = <<>>
    /\ pending = <<>>
    /\ callLog = <<>>
    /\ handlerLog = <<>>
    /\ nextLog = <<>>
    /\ resLog = [r \in Requests |-> <<>>]

HeapObjects == { heap[i] : i \in 1 .. Len(heap) }

\* The constructor call new cls(...) with the arguments args, which gave r: the
\* object joins the heap unless the constructor threw.
Args(handler, location, json, statusArg, msgArg) ==
    [handler |-> handler, location |-> location, json |-> json,
     statusArg |-> statusArg, msgArg |-> msgArg]

Construct(cls, args, r) ==
    /\ heap' = IF r.threw = "none" THEN Append(heap, r.obj) ELSE heap
    /\ ctorLog' = Append(ctorLog,
                         [cls |-> cls, args |-> args,
                          made |-> IF r.threw = "none" THEN r.obj.id ELSE 0,
                          threw |-> r.threw])
    /\ UNCHANGED <<pending, callLog, handlerLog, nextLog, resLog>>

NewThrowableResponse(handler, msgArg) ==
    Construct("ThrowableResponse", Args(handler, NoLoc, JsonNull, Undefined, msgArg),
              ThrowableResponse(Len(heap) + 1, ThrowableResponseProto, handler, msgArg))

NewThrowableRedirect(location, statusArg) ==
    Construct("ThrowableRedirect", Args(NoHandler, location, JsonNull, statusArg, Undefined),
              ThrowableRedirect(Len(heap) + 1, location, statusArg))

NewThrowableJson(json, statusArg) ==
    Construct("ThrowableJson", Args(NoHandler, NoLoc, json, statusArg, Undefined),
              ThrowableJson(Len(heap) + 1, json, statusArg))

\* throw v, in the processing of request rc, in a frame that has depth frames
\* with a catch block between it and the host
Raise(rc, v, depth) ==
    /\ pending = <<>>
    /\ pending' = <<[rc |-> rc, val |-> v, depth |-> depth]>>
    /\ UNCHANGED <<heap, ctorLog, callLog, handlerLog, nextLog, resLog>>

\* try { ... } catch (error) { throw v }: the nearest frame with a catch block
\* catches the propagating value and throws v, the same value or another one
CatchRethrow(v) ==
    /\ pending # <<>>
    /\ pending[1].depth > 0
    /\ pending' = <<[rc |-> pending[1].rc, val |-> v, depth |-> pending[1].depth - 1]>>
    /\ UNCHANGED <<heap, ctorLog, callLog, handlerLog, nextLog, resLog>>

\* app.use(throwableResponses): no frame is left to catch the value, and the
\* host passes it to the middleware with the request's req, res and next
Deliver ==
    /\ pending # <<>>
    /\ pending[1].depth = 0
    /\ LET rc == pending[1].rc
           err == pending[1].val
           k == Len(callLog) + 1
           o == throwableResponses(err, rc, rc, rc)
       IN /\ callLog' = Append(callLog,
                               [err |-> err, req |-> rc, res |-> rc, next |-> rc,
                                threw |-> o.eff.threw])
          /\ handlerLog' = handlerLog \o
                 [i \in 1 .. Len(o.handlerCalls) |->
                     [call |-> k, obj |-> o.handlerCalls[i].obj,
                      req |-> o.handlerCalls[i].req, res |-> o.handlerCalls[i].res,
                      next |-> o.handlerCalls[i].next]]
          /\ nextLog' = nextLog \o
                 [i \in 1 .. Len(o.eff.nexts) |->
                     [call |-> k, by |-> o.eff.nexts[i].by,
                      next |-> o.eff.nexts[i].next, arg |-> o.eff.nexts[i].arg]]
          /\ resLog' = [r \in Requests |->
                 resLog[r] \o
                 LET ws == SelectSeq(o.eff.writes, LAMBDA w : w.res = r)
                 IN [i \in 1 .. Len(ws) |->
                        [call |-> k, op |-> ws[i].op, code |-> ws[i].code,
                         target |-> ws[i].target, body |-> ws[i].body]]]
    /\ pending' = <<>>
    /\ UNCHANGED <<heap, ctorLog>>

\* One signal at a time, over every input, thrown where no frame catches it.
Next ==
    \/ /\ Len(ctorLog) < MaxObjects
       /\ \E h \in CustomHandlers, m \in MessageArgs : NewThrowableResponse(h, m)
    \/ /\ Len(ctorLog) < MaxObjects
       /\ \E l \in Locations, s \in RedirectStatusArgs : NewThrowableRedirect(l, s)
    \/ /\ Len(ctorLog) < MaxObjects
       /\ \E j \in JsonValues, s \in JsonStatusArgs : NewThrowableJson(j, s)
    \/ /\ Len(callLog) < MaxCalls
       /\ \E rc \in Requests, v \in HeapObjects \cup NonSignals : Raise(rc, v, 0)
    \/ Deliver

Spec == Init /\ [][Next]_vars

\* Several signals in the processing of a request.
NextSeq ==
    \/ /\ Len(ctorLog) < MaxSeqObjects
       /\ \E l \in SeqLocations, s \in SeqRedirectStatusArgs : NewThrowableRedirect(l, s)
    \/ /\ Len(ctorLog) < MaxSeqObjects
       /\ \E j \in SeqJsonValues, s \in SeqJsonStatusArgs : NewThrowableJson(j, s)
    \/ /\ Len(ctorLog) < MaxSeqObjects
       /\ \E h \in SeqHandlers, m \in SeqMessageArgs : NewThrowableResponse(h, m)
    \/ /\ Len(callLog) < MaxSeqCalls
       /\ \E rc \in Requests, v \in HeapObjects \cup SeqNonSignals, d \in 0 .. MaxDepth :
             Raise(rc, v, d)
    \/ \E v \in HeapObjects \cup SeqNonSignals : CatchRethrow(v)
    \/ Deliver

SpecSeq == Init /\ [][NextSeq]_vars

(***************************************************************************)
(* What the logs say about one invocation of the middleware.               *)
(***************************************************************************)
Calls == 1 .. Len(callLog)

\* the ThrowableResponse values are the objects the three constructors made
IsSignal(v) == v \in HeapObjects

\* the handler invocations made during invocation k
HandlerCallsOf(k) == SelectSeq(handlerLog, LAMBDA h : h.call = k)

\* the calls of next made during invocation k by the middleware itself
MiddlewareNextsOf(k) == SelectSeq(nextLog, LAMBDA n : n.call = k /\ n.by = "middleware")

\* the calls of next made during invocation k by the handler
HandlerNextsOf(k) == SelectSeq(nextLog, LAMBDA n : n.call = k /\ n.by = "handler")

\* the calls made during invocation k on response r
WritesOf(k, r) == SelectSeq(resLog[r], LAMBDA w : w.call = k)

\* invocation k wrote on no response but r
WritesOnlyOn(k, r) == \A q \in Requests \ {r} : WritesOf(k, q) = <<>>

\* the constructor call that made the object v, if one did
MadeBy(v) == { i \in 1 .. Len(ctorLog) : v.id > 0 /\ ctorLog[i].made = v.id }

(***************************************************************************)
(* C1: whenever the middleware is invoked with a ThrowableResponse (of the *)
(* base class or a subclass, whatever its message), the handler of that    *)
(* value is invoked exactly once, with the req, res and next the           *)
(* middleware was given, and the middleware itself does not call next.     *)
(***************************************************************************)
C1_SignalHandledOnce ==
    \A k \in Calls :
        IsSignal(callLog[k].err) =>
            /\ HandlerCallsOf(k) =
                  <<[call |-> k, obj |-> callLog[k].err, req |-> callLog[k].req,
                     res |-> callLog[k].res, next |-> callLog[k].next]>>
            /\ MiddlewareNextsOf(k) = <<>>

\* a signal whose own handler calls next has been intercepted, on the second
\* request: next was called by the handler, not by the middleware
C1_Witness ==
    \E k \in Calls :
        /\ IsSignal(callLog[k].err)
        /\ callLog[k].res = 2
        /\ Len(HandlerCallsOf(k)) = 1
        /\ HandlerNextsOf(k) # <<>>

(***************************************************************************)
(* C2: whenever the middleware is invoked with a value that is not a       *)
(* ThrowableResponse (even one with a handler field or with the message of *)
(* a signal), next is called exactly once, with that value, no handler is  *)
(* invoked and nothing is written on any response.                         *)
(***************************************************************************)
C2_NonSignalForwarded ==
    \A k \in Calls :
        ~IsSignal(callLog[k].err) =>
            /\ SelectSeq(nextLog, LAMBDA n : n.call = k) =
                  <<[call |-> k, by |-> "middleware", next |-> callLog[k].next,
                     arg |-> <<callLog[k].err>>]>>
            /\ HandlerCallsOf(k) = <<>>
            /\ \A r \in Requests : WritesOf(k, r) = <<>>
            /\ callLog[k].threw = "none"

\* an object with a handler field and a signal's message, but not of the
\* class, has been forwarded
C2_Witness ==
    \E k \in Calls :
        /\ ~IsSignal(callLog[k].err)
        /\ callLog[k].err.hasHandler
        /\ callLog[k].err.message = DefaultMessage
        /\ Len(MiddlewareNextsOf(k)) = 1

(***************************************************************************)
(* C3: constructing a ThrowableRedirect with a status outside              *)
(* {301, 302, 303, 307, 308}, such as 299, fails at construction: the      *)
(* constructor throws and makes no object, so no redirect with such a      *)
(* status is ever written.                                                 *)
(***************************************************************************)
C3_InvalidStatusRejected ==
    /\ \A i \in 1 .. Len(ctorLog) :
          ( /\ ctorLog[i].cls = "ThrowableRedirect"
            /\ ctorLog[i].args.statusArg # Undefined
            /\ ctorLog[i].args.statusArg[1] \notin {301, 302, 303, 307, 308} )
          => (ctorLog[i].threw # "none" /\ ctorLog[i].made = 0)
    /\ \A r \in Requests : \A i \in 1 .. Len(resLog[r]) :
          resLog[r][i].op = "redirect" => resLog[r][i].code \in {301, 302, 303, 307, 308}

(***************************************************************************)
(* C5: for every status S of {301, 302, 303, 307, 308} and every location  *)
(* L, the handler of ThrowableRedirect(L, S), invoked once, makes exactly  *)
(* one call on the response, a redirect with status S to the string form   *)
(* of L, and calls nothing else: no status, header or body write, no next. *)
(***************************************************************************)
C5_RedirectWritesOnce ==
    \A k \in Calls : \A i \in MadeBy(callLog[k].err) :
        ( /\ ctorLog[i].cls = "ThrowableRedirect"
          /\ ctorLog[i].args.statusArg # Undefined
          /\ ctorLog[i].args.statusArg[1] \in {301, 302, 303, 307, 308} )
        => /\ WritesOf(k, callLog[k].res) =
                 <<[call |-> k, op |-> "redirect", code |-> ctorLog[i].args.statusArg[1],
                    target |-> LocToString(ctorLog[i].args.location), body |-> JsonNull]>>
           /\ WritesOnlyOn(k, callLog[k].res)
           /\ SelectSeq(nextLog, LAMBDA n : n.call = k) = <<>>
           /\ callLog[k].threw = "none"

\* a ThrowableRedirect of a URL object with status 308 has been executed: one
\* redirect to the URL's href
C5_Witness ==
    \E k \in Calls : \E i \in MadeBy(callLog[k].err) :
        /\ ctorLog[i].cls = "ThrowableRedirect"
        /\ ctorLog[i].args.statusArg = Given(308)
        /\ ctorLog[i].args.location.kind = "URL"
        /\ Len(WritesOf(k, callLog[k].res)) = 1
        /\ WritesOf(k, callLog[k].res)[1].target = "https://example.com/profile"

(***************************************************************************)
(* C6: for every JSON value V and status S, the handler of                 *)
(* ThrowableJson(V, S), invoked once, makes exactly two calls on the       *)
(* response: first one status write of S, then one body write of V; it     *)
(* makes no redirect and does not call next.                               *)
(***************************************************************************)
C6_JsonStatusThenBody ==
    \A k \in Calls : \A i \in MadeBy(callLog[k].err) :
        ( /\ ctorLog[i].cls = "ThrowableJson"
          /\ ctorLog[i].args.statusArg # Undefined
          /\ ~IsCyclic(ctorLog[i].args.json) )
        => /\ WritesOf(k, callLog[k].res) =
                 <<[call |-> k, op |-> "status", code |-> ctorLog[i].args.statusArg[1],
                    target |-> "", body |-> JsonNull],
                   [call |-> k, op |-> "json", code |-> 0,
                    target |-> "", body |-> ctorLog[i].args.json]>>
           /\ WritesOnlyOn(k, callLog[k].res)
           /\ SelectSeq(nextLog, LAMBDA n : n.call = k) = <<>>
           /\ callLog[k].threw = "none"

\* ThrowableJson({error: "Not found"}, 404) has been executed: status 404, then
\* the body
C6_Witness ==
    \E k \in Calls : \E i \in MadeBy(callLog[k].err) :
        /\ ctorLog[i].cls = "ThrowableJson"
        /\ ctorLog[i].args.statusArg = Given(404)
        /\ ctorLog[i].args.json.t = "object"
        /\ Len(WritesOf(k, callLog[k].res)) = 2
        /\ WritesOf(k, callLog[k].res)[1].code = 404
        /\ WritesOf(k, callLog[k].res)[2].body.items[1].s = "Not found"

(***************************************************************************)
(* C7: when the handler of the signal the middleware is invoked with fails *)
(* synchronously, that failure leaves the middleware, once: the middleware *)
(* does not catch it, invokes the handler no second time and does not call *)
(* next.                                                                   *)
(***************************************************************************)
C7_FailurePropagates ==
    \A k \in Calls :
        LET c == callLog[k]
            failure == RunHandler(c.err.handler, c.req, c.res, c.next).threw
        IN (IsSignal(c.err) /\ failure # "none") =>
              /\ c.threw = failure
              /\ Len(HandlerCallsOf(k)) = 1
              /\ MiddlewareNextsOf(k) = <<>>

\* a ThrowableJson of a circular structure has been executed: the status was
\* written, the serialization failed and the failure left the middleware
C7_Witness ==
    \E k \in Calls :
        /\ IsSignal(callLog[k].err)
        /\ callLog[k].err.handler.kind = "json"
        /\ callLog[k].threw = "TypeError: circular structure"
        /\ Len(WritesOf(k, callLog[k].res)) = 1

(***************************************************************************)
(* C8: a ThrowableRedirect constructed with a location L and no status is  *)
(* the object ThrowableRedirect(L, 302) would be: intercepted, it makes    *)
(* exactly one redirect with status 302 to the string form of L.           *)
(***************************************************************************)
C8_RedirectDefaults302 ==
    /\ \A i \in 1 .. Len(ctorLog) :
          (ctorLog[i].cls = "ThrowableRedirect" /\ ctorLog[i].args.statusArg = Undefined)
          => /\ ctorLog[i].made > 0
             /\ heap[ctorLog[i].made].handler.status = 302
    /\ \A k \in Calls : \A i \in MadeBy(callLog[k].err) :
          (ctorLog[i].cls = "ThrowableRedirect" /\ ctorLog[i].args.statusArg = Undefined)
          => WritesOf(k, callLog[k].res) =
                <<[call |-> k, op |-> "redirect", code |-> 302,
                   target |-> LocToString(ctorLog[i].args.location), body |-> JsonNull]>>

\* new ThrowableRedirect("/login") has been intercepted: a 302 redirect to /login
C8_Witness ==
    \E k \in Calls : \E i \in MadeBy(callLog[k].err) :
        /\ ctorLog[i].cls = "ThrowableRedirect"
        /\ ctorLog[i].args.statusArg = Undefined
        /\ Len(WritesOf(k, callLog[k].res)) = 1
        /\ WritesOf(k, callLog[k].res)[1].code = 302
        /\ WritesOf(k, callLog[k].res)[1].target = "/login"

(***************************************************************************)
(* C10: every constructed signal has a non-empty message, whether the      *)
(* message argument of ThrowableResponse is omitted or given as any        *)
(* string, the empty string included, and for every ThrowableRedirect and  *)
(* ThrowableJson; when the argument is omitted it is the placeholder.      *)
(***************************************************************************)
C10_MessageNonEmpty ==
    /\ \A i \in 1 .. Len(heap) : heap[i].message # ""
    /\ \A i \in 1 .. Len(ctorLog) :
          (ctorLog[i].cls = "ThrowableResponse" /\ ctorLog[i].args.msgArg = Undefined)
          => heap[ctorLog[i].made].message = "Not an error: response thrown"

\* C10, amended: the message of a ThrowableResponse is the placeholder when the
\* argument is omitted and the given string otherwise, so it is empty exactly
\* when the empty string is given; the message of every ThrowableRedirect and
\* ThrowableJson is non-empty.
C10_MessageIsArgumentOrPlaceholder ==
    \A i \in 1 .. Len(ctorLog) :
        LET c == ctorLog[i] IN
        /\ c.made > 0
        /\ c.cls = "ThrowableResponse" =>
              /\ c.args.msgArg = Undefined =>
                    heap[c.made].message = "Not an error: response thrown"
              /\ c.args.msgArg # Undefined => heap[c.made].message = c.args.msgArg[1]
              /\ heap[c.made].message = "" <=> c.args.msgArg = Given("")
        /\ c.cls \in {"ThrowableRedirect", "ThrowableJson"} => heap[c.made].message # ""

\* new ThrowableResponse(handler, "") has been constructed: its message is empty
C10_Witness ==
    \E i \in 1 .. Len(ctorLog) :
        /\ ctorLog[i].cls = "ThrowableResponse"
        /\ ctorLog[i].args.msgArg = Given("")
        /\ ctorLog[i].made > 0
        /\ heap[ctorLog[i].made].message = ""

(***************************************************************************)
(* Several signals, and several invocations, in one request.               *)
(***************************************************************************)
\* the signals whose handler has been invoked with the response of request r
ExecutedFor(r) == { handlerLog[i].obj.id : i \in { j \in 1 .. Len(handlerLog) : handlerLog[j].res = r } }

\* the calls on the response of request r that end the response
TerminalWrites(r) == SelectSeq(resLog[r], LAMBDA w : w.op \in {"redirect", "json", "send"})

\* the signals those calls come from
TerminalWriters(r) == { callLog[TerminalWrites(r)[i].call].err.id : i \in 1 .. Len(TerminalWrites(r)) }

\* how often the handler of the object id has been invoked
Executions(id) == Cardinality({ i \in 1 .. Len(handlerLog) : handlerLog[i].obj.id = id })

\* how often the middleware has been invoked with the object id
Deliveries(id) == Cardinality({ k \in Calls : callLog[k].err.id = id })

(***************************************************************************)
(* C4: when two signals are raised one after the other in the processing   *)
(* of a request, only the first to reach the middleware has its handler    *)
(* invoked: over any sequence of raises and invocations of the middleware  *)
(* for the request, at most one signal is executed against its response,   *)
(* which receives at most one terminal write.                              *)
(***************************************************************************)
C4_OneSignalPerRequest ==
    \A r \in Requests :
        /\ Cardinality(ExecutedFor(r)) <= 1
        /\ Cardinality(TerminalWriters(r)) <= 1

====
